---- MODULE Spec2Model ----
(***************************************************************************)
(* A model of the popgun POP3 session engine (src/popgun.go): the          *)
(* per-connection Client, its read loop (Client.handle), the command       *)
(* handlers (the Run methods) and the Printer, together with the Backend   *)
(* and Authorizator the handlers call.                                     *)
(*                                                                         *)
(* Strings that the code parses or formats are sequences of one-character  *)
(* strings, so that parseInput, Atoi and MultiLine compute what the code   *)
(* computes.  Fixed message texts are kept as TLA+ strings.                *)
(***************************************************************************)
EXTENDS Integers, Sequences, FiniteSets, TLC

(***************************************************************************)
(* Bounds of the model.                                                    *)
(***************************************************************************)
\* connections accepted one after the other on the single slot of Spec
MaxSessions == 2
\* connections accepted on the two slots of SpecConc, both slots together
MaxAccepts == 3
\* the longest content line, and the longest list of content lines, given
\* to MultiLine
MaxLineLen == 3
MaxLines == 2
\* the longest input line given to parseInput
MaxInputLen == 4
\* 1 * time.Minute, in ticks of the clock (half a minute each)
Minute == 2
\* the clock stops at MaxTime
MaxTime == 5

(***************************************************************************)
(* Session states (const block of popgun.go).                              *)
(***************************************************************************)
STATE_AUTHORIZATION == 1
STATE_TRANSACTION == 2
STATE_UPDATE == 3

(***************************************************************************)
(* Characters and strings.                                                 *)
(***************************************************************************)
CR == "\r"
LF == "\n"
SP == " "

Lower == <<"a","b","c","d","e","f","g","h","i","j","k","l","m",
           "n","o","p","q","r","s","t","u","v","w","x","y","z">>
Upper == <<"A","B","C","D","E","F","G","H","I","J","K","L","M",
           "N","O","P","Q","R","S","T","U","V","W","X","Y","Z">>
Digits == <<"0","1","2","3","4","5","6","7","8","9">>

\* strings.ToUpper, one character
ToUpperChar(ch) ==
  IF \E i \in 1..26 : Lower[i] = ch
  THEN Upper[CHOOSE i \in 1..26 : Lower[i] = ch]
  ELSE ch

\* strings.ToUpper
ToUpper(s) == [i \in 1..Len(s) |-> ToUpperChar(s[i])]

\* strings.Trim(s, cutset): removes the characters of cutset from BOTH ends
RECURSIVE TrimLeft(_, _)
TrimLeft(s, cutset) ==
  IF s # <<>> /\ Head(s) \in cutset THEN TrimLeft(Tail(s), cutset) ELSE s

RECURSIVE TrimRight(_, _)
TrimRight(s, cutset) ==
  IF s # <<>> /\ s[Len(s)] \in cutset
  THEN TrimRight(SubSeq(s, 1, Len(s) - 1), cutset)
  ELSE s

Trim(s, cutset) == TrimRight(TrimLeft(s, cutset), cutset)

\* strings.Split(s, sep) for a one-character sep: every occurrence of sep
\* separates two (possibly empty) tokens; Split("", sep) is one empty token
RECURSIVE SplitFrom(_, _, _)
SplitFrom(s, sep, cur) ==
  IF s = <<>> THEN <<cur>>
  ELSE IF Head(s) = sep THEN <<cur>> \o SplitFrom(Tail(s), sep, <<>>)
  ELSE SplitFrom(Tail(s), sep, Append(cur, Head(s)))

Split(s, sep) == SplitFrom(s, sep, <<>>)

IsDigit(ch) == \E i \in 1..10 : Digits[i] = ch
DigitVal(ch) == (CHOOSE i \in 1..10 : Digits[i] = ch) - 1

RECURSIVE DigitsVal(_, _)
DigitsVal(s, acc) ==
  IF s = <<>> THEN acc ELSE DigitsVal(Tail(s), 10 * acc + DigitVal(Head(s)))

\* strconv.Atoi: an optional sign and at least one decimal digit
Atoi(s) ==
  LET signed == s # <<>> /\ Head(s) \in {"+", "-"}
      body == IF signed THEN Tail(s) ELSE s
      good == body # <<>> /\ \A i \in 1..Len(body) : IsDigit(body[i])
  IN  IF ~good THEN [ok |-> FALSE, val |-> 0]
      ELSE [ok |-> TRUE,
            val |-> IF signed /\ Head(s) = "-"
                    THEN 0 - DigitsVal(body, 0) ELSE DigitsVal(body, 0)]

\* the %d verb of fmt.Sprintf
RECURSIVE ItoaNat(_)
ItoaNat(n) ==
  IF n < 10 THEN <<Digits[n + 1]>>
  ELSE Append(ItoaNat(n \div 10), Digits[(n % 10) + 1])

Itoa(n) == IF n < 0 THEN <<"-">> \o ItoaNat(0 - n) ELSE ItoaNat(n)

\* Client.parseInput without strings.ToUpper
parseInputKeepsCase(input) ==
  LET trimmed == Trim(input, {CR, SP, LF})
      cmd == Split(trimmed, SP)
  IN  [cmd |-> cmd[1], args |-> Tail(cmd)]

(***************************************************************************)
(* Client.parseInput.                                                      *)
(***************************************************************************)
parseInput(input) ==
  LET trimmed == Trim(input, {CR, SP, LF})
      cmd == Split(trimmed, SP)
  IN  [cmd |-> ToUpper(cmd[1]), args |-> Tail(cmd)]

(***************************************************************************)
(* The twelve verbs of the command registry (newClient).                   *)
(***************************************************************************)
QUIT == <<"Q","U","I","T">>
USER == <<"U","S","E","R">>
PASS == <<"P","A","S","S">>
STAT == <<"S","T","A","T">>
LIST == <<"L","I","S","T">>
RETR == <<"R","E","T","R">>
DELE == <<"D","E","L","E">>
NOOP == <<"N","O","O","P">>
RSET == <<"R","S","E","T">>
UIDL == <<"U","I","D","L">>
CAPA == <<"C","A","P","A">>
TOP == <<"T","O","P">>

commands == {QUIT, USER, PASS, STAT, LIST, RETR, DELE, NOOP, RSET, UIDL, CAPA, TOP}

(***************************************************************************)
(* Printer.  A reply line is a record: st is "+OK", "-ERR", "data" (a line *)
(* of a multi-line block) or "." (the terminator); fmt is the format text, *)
(* s the %s argument or the data line, n the %d arguments.  Every line is  *)
(* written with a trailing CRLF.                                           *)
(***************************************************************************)
Line(st, fmt, s, n) == [st |-> st, fmt |-> fmt, s |-> s, n |-> n]

Welcome == Line("+OK", "POPgun POP3 server ready", <<>>, <<>>)
Ok(fmt, s, n) == Line("+OK", fmt, s, n)
Err(fmt, s, n) == Line("-ERR", fmt, s, n)

\* Printer.MultiLine: one line of the block
StuffLine(line) ==
  LET l == Trim(line, {CR})
  IN  IF l # <<>> /\ Head(l) = "." THEN <<".">> \o l ELSE l

\* Printer.MultiLine
MultiLine(msgs) ==
  [i \in 1..Len(msgs) |-> Line("data", "", StuffLine(msgs[i]), <<>>)]
    \o <<Line(".", "", <<>>, <<>>)>>

(***************************************************************************)
(* Authorizator and Backend: the collaborators the handlers call.  The     *)
(* Authorizator keeps a table of passwords; the Backend keeps the set of   *)
(* locked identities, and any of its operations may fail (ok = FALSE).     *)
(* DummyBackend answers with fixed values and ignores DELE and RSET.  A    *)
(* backend that does what the comments of its methods say (be.keeps) holds *)
(* a maildrop (be.msgs) and the messages marked as deleted (be.deleted):   *)
(* Dele marks, Stat and List ignore the marked messages, Rset unmarks,     *)
(* Update removes the marked messages, and the marks last one connection.  *)
(***************************************************************************)
NoUser == <<>>
Users == {<<"a">>}
Password(u) == <<"x">>

\* Authorizator.Authorize: the identity of the user, or an error
Authorize(username, password) ==
  IF username \in Users /\ password = Password(username)
  THEN [user |-> username, ok |-> TRUE]
  ELSE [user |-> NoUser, ok |-> FALSE]

Call(op, user, ok) == [op |-> op, user |-> user, ok |-> ok]

\* Backend.Lock: fails while the identity is locked, or for a reason of its own
BackendLock(be, user, ok) ==
  LET good == ok /\ user \notin be.locked
  IN  [ok |-> good,
       be |-> IF good THEN [be EXCEPT !.locked = @ \cup {user}] ELSE be,
       call |-> Call("Lock", user, good)]

\* the maildrop of a backend that keeps marks, and one of DummyBackend
Maildrop == {1, 2}
DummyState == [locked |-> {}, keeps |-> FALSE, msgs |-> {}, deleted |-> {}]
KeepingState == [locked |-> {}, keeps |-> TRUE, msgs |-> Maildrop, deleted |-> {}]

\* the messages that are not marked as deleted
Live(be) == be.msgs \ be.deleted

\* Backend.Unlock: releases the identity; it may still report an error.
\* The marks of the connection are dropped with it
BackendUnlock(be, user, ok) ==
  [ok |-> ok,
   be |-> [be EXCEPT !.locked = @ \ {user}, !.deleted = {}],
   call |-> Call("Unlock", user, ok)]

\* Backend.Update: "delete all messages marked as deleted"
BackendUpdate(be, user, ok) ==
  [ok |-> ok,
   be |-> IF ok THEN [be EXCEPT !.msgs = Live(be), !.deleted = {}] ELSE be,
   call |-> Call("Update", user, ok)]

\* DummyBackend.Stat; Backend.Stat: "Deleted messages are ignored"
BackendStat(be, user, ok) ==
  IF be.keeps
  THEN [ok |-> ok, messages |-> Cardinality(Live(be)),
        octets |-> 10 * Cardinality(Live(be)), call |-> Call("Stat", user, ok)]
  ELSE [ok |-> ok, messages |-> 5, octets |-> 50, call |-> Call("Stat", user, ok)]

\* DummyBackend.List; Backend.List: the sizes of the messages not marked
BackendList(be, user, ok) ==
  IF be.keeps
  THEN [ok |-> ok, octets |-> [i \in 1..Cardinality(Live(be)) |-> 10],
        call |-> Call("List", user, ok)]
  ELSE [ok |-> ok, octets |-> <<10, 10, 10, 10, 10>>, call |-> Call("List", user, ok)]

\* DummyBackend.ListMessage
BackendListMessage(be, user, msgId, ok) ==
  [ok |-> ok, exists |-> ~(msgId > 4), octets |-> IF msgId > 4 THEN 0 ELSE 10,
   call |-> Call("ListMessage", user, ok)]

\* DummyBackend.Retr ("hi" stands for the message text)
BackendRetr(be, user, msgId, ok) ==
  [ok |-> ok, message |-> <<"h","i">>, call |-> Call("Retr", user, ok)]

\* DummyBackend.Dele; Backend.Dele: "message should be just marked as
\* deleted until Update() is called" (an error for a message that is not there)
BackendDele(be, user, msgId, ok) ==
  IF be.keeps
  THEN LET good == ok /\ msgId \in Live(be)
       IN  [ok |-> good,
            be |-> IF good THEN [be EXCEPT !.deleted = @ \cup {msgId}] ELSE be,
            call |-> Call("Dele", user, good)]
  ELSE [ok |-> ok, be |-> be, call |-> Call("Dele", user, ok)]

\* DummyBackend.Rset; Backend.Rset: "Undelete all messages marked as deleted
\* in single connection"
BackendRset(be, user, ok) ==
  [ok |-> ok,
   be |-> IF ok THEN [be EXCEPT !.deleted = {}] ELSE be,
   call |-> Call("Rset", user, ok)]

\* DummyBackend.Uidl
BackendUidl(be, user, ok) ==
  [ok |-> ok, uids |-> <<<<"1">>, <<"2">>, <<"3">>, <<"4">>, <<"5">>>>,
   call |-> Call("Uidl", user, ok)]

\* DummyBackend.UidlMessage
BackendUidlMessage(be, user, msgId, ok) ==
  [ok |-> ok, exists |-> ~(msgId > 4),
   uid |-> IF msgId > 4 THEN <<>> ELSE Itoa(msgId + 1),
   call |-> Call("UidlMessage", user, ok)]

\* DummyBackend.Top
BackendTop(be, user, msgId, n, ok) ==
  [ok |-> ok, lines |-> <<>>, call |-> Call("Top", user, ok)]

(***************************************************************************)
(* Command handlers (the Run methods).  A handler takes the client c, the  *)
(* arguments, the backend state be and the outcomes env of the backend     *)
(* calls it may make (env.ok1 of the first, env.ok2 of the second), and    *)
(* returns the client and backend as it leaves them, the state and error   *)
(* it returns, the reply lines it wrote and the calls it made.  panic      *)
(* marks a run that ends in a nil dereference instead of returning.        *)
(***************************************************************************)
Result(c, state, err, out, calls, be) ==
  [c |-> c, state |-> state, err |-> err, panic |-> FALSE,
   out |-> out, calls |-> calls, be |-> be]

\* return 0, fmt.Errorf(..., c.user.Username(), ...): building the error
\* calls Username() on c.user, which panics when c.user is nil
ErrorOf(c, out, calls, be) ==
  [c |-> c, state |-> 0, err |-> TRUE, panic |-> (c.user = NoUser),
   out |-> out, calls |-> calls, be |-> be]

\* return 0, ErrInvalidState and the other errors that do not name the user
PlainError(c, be) == Result(c, 0, TRUE, <<>>, <<>>, be)

\* Client.AllowAuth
AllowAuth(c) == c.allowInsecureAuth \/ c.tls

\* QuitCommand.Run with newState set to UPDATE before the state is tested
QuitRunAlwaysUpdate(c, args, be, env) ==
  LET c1 == [c EXCEPT !.isAlive = FALSE]
      upd == BackendUpdate(be, c.user, env.ok1)
      unl == BackendUnlock(upd.be, c.user, env.ok2)
      c2 == [c1 EXCEPT !.user = NoUser]
  IN  IF c.currentState = STATE_TRANSACTION
      THEN IF ~upd.ok
           THEN ErrorOf(c1, <<>>, <<upd.call>>, upd.be)
           ELSE IF ~unl.ok
           THEN ErrorOf(c2, <<Err("Server was unable to unlock maildrop", <<>>, <<>>)>>,
                        <<upd.call, unl.call>>, unl.be)
           ELSE Result(c2, STATE_UPDATE, FALSE, <<Ok("Goodbye", <<>>, <<>>)>>,
                       <<upd.call, unl.call>>, unl.be)
      ELSE Result(c1, STATE_UPDATE, FALSE, <<Ok("Goodbye", <<>>, <<>>)>>, <<>>, be)

\* QuitCommand.Run with isAlive cleared only after the commit succeeded
QuitRunAliveOnError(c, args, be, env) ==
  LET c1 == [c EXCEPT !.isAlive = FALSE]
      upd == BackendUpdate(be, c.user, env.ok1)
      unl == BackendUnlock(upd.be, c.user, env.ok2)
      c2 == [c1 EXCEPT !.user = NoUser]
  IN  IF c.currentState = STATE_TRANSACTION
      THEN IF ~upd.ok
           THEN ErrorOf(c, <<>>, <<upd.call>>, upd.be)
           ELSE IF ~unl.ok
           THEN ErrorOf(c2, <<Err("Server was unable to unlock maildrop", <<>>, <<>>)>>,
                        <<upd.call, unl.call>>, unl.be)
           ELSE Result(c2, STATE_UPDATE, FALSE, <<Ok("Goodbye", <<>>, <<>>)>>,
                       <<upd.call, unl.call>>, unl.be)
      ELSE Result(c1, c.currentState, FALSE, <<Ok("Goodbye", <<>>, <<>>)>>, <<>>, be)

\* QuitCommand.Run committing and unlocking without the test of the state
QuitRunCommitsAnywhere(c, args, be, env) ==
  LET c1 == [c EXCEPT !.isAlive = FALSE]
      upd == BackendUpdate(be, c.user, env.ok1)
      unl == BackendUnlock(upd.be, c.user, env.ok2)
      c2 == [c1 EXCEPT !.user = NoUser]
      newState == IF c.currentState = STATE_TRANSACTION THEN STATE_UPDATE
                  ELSE c.currentState
  IN  IF ~upd.ok
      THEN ErrorOf(c1, <<>>, <<upd.call>>, upd.be)
      ELSE IF ~unl.ok
      THEN ErrorOf(c2, <<Err("Server was unable to unlock maildrop", <<>>, <<>>)>>,
                   <<upd.call, unl.call>>, unl.be)
      ELSE Result(c2, newState, FALSE, <<Ok("Goodbye", <<>>, <<>>)>>,
                  <<upd.call, unl.call>>, unl.be)

\* QuitCommand.Run
QuitRun(c, args, be, env) ==
  LET c1 == [c EXCEPT !.isAlive = FALSE]
      upd == BackendUpdate(be, c.user, env.ok1)
      unl == BackendUnlock(upd.be, c.user, env.ok2)
      c2 == [c1 EXCEPT !.user = NoUser]
  IN  IF c.currentState = STATE_TRANSACTION
      THEN IF ~upd.ok
           THEN ErrorOf(c1, <<>>, <<upd.call>>, upd.be)
           ELSE IF ~unl.ok
           THEN ErrorOf(c2, <<Err("Server was unable to unlock maildrop", <<>>, <<>>)>>,
                        <<upd.call, unl.call>>, unl.be)
           ELSE Result(c2, STATE_UPDATE, FALSE, <<Ok("Goodbye", <<>>, <<>>)>>,
                       <<upd.call, unl.call>>, unl.be)
      ELSE Result(c1, c.currentState, FALSE, <<Ok("Goodbye", <<>>, <<>>)>>, <<>>, be)

\* UserCommand.Run without the test of the state
UserRunNoStateCheck(c, args, be, env) ==
  IF ~AllowAuth(c) THEN PlainError(c, be)
  ELSE IF Len(args) # 1 THEN PlainError(c, be)
  ELSE Result([c EXCEPT !.username = args[1]], STATE_AUTHORIZATION, FALSE,
              <<Ok("", <<>>, <<>>)>>, <<>>, be)

\* UserCommand.Run without the AllowAuth test
UserRunNoAllowAuth(c, args, be, env) ==
  IF c.currentState # STATE_AUTHORIZATION THEN PlainError(c, be)
  ELSE IF Len(args) # 1 THEN PlainError(c, be)
  ELSE Result([c EXCEPT !.username = args[1]], STATE_AUTHORIZATION, FALSE,
              <<Ok("", <<>>, <<>>)>>, <<>>, be)

\* UserCommand.Run answering -ERR for a name that has no mailbox
UserRunChecksName(c, args, be, env) ==
  IF c.currentState # STATE_AUTHORIZATION THEN PlainError(c, be)
  ELSE IF ~AllowAuth(c) THEN PlainError(c, be)
  ELSE IF Len(args) # 1 THEN PlainError(c, be)
  ELSE IF args[1] \notin Users
  THEN Result(c, STATE_AUTHORIZATION, FALSE,
              <<Err("no such mailbox", <<>>, <<>>)>>, <<>>, be)
  ELSE Result([c EXCEPT !.username = args[1]], STATE_AUTHORIZATION, FALSE,
              <<Ok("", <<>>, <<>>)>>, <<>>, be)

\* UserCommand.Run
UserRun(c, args, be, env) ==
  IF c.currentState # STATE_AUTHORIZATION THEN PlainError(c, be)
  ELSE IF ~AllowAuth(c) THEN PlainError(c, be)
  ELSE IF Len(args) # 1 THEN PlainError(c, be)
  ELSE Result([c EXCEPT !.username = args[1]], STATE_AUTHORIZATION, FALSE,
              <<Ok("", <<>>, <<>>)>>, <<>>, be)

\* PassCommand.Run without the call of Lock
PassRunNoLock(c, args, be, env) ==
  IF c.currentState # STATE_AUTHORIZATION THEN PlainError(c, be)
  ELSE IF ~AllowAuth(c) THEN PlainError(c, be)
  ELSE IF c.lastCommand # USER
  THEN Result(c, STATE_AUTHORIZATION, FALSE,
              <<Err("PASS can be executed only directly after USER command", <<>>, <<>>)>>,
              <<>>, be)
  ELSE IF Len(args) # 1 THEN PlainError(c, be)
  ELSE LET auth == Authorize(c.username, args[1])
           acall == Call("Authorize", c.username, auth.ok)
           c1 == [c EXCEPT !.user = auth.user, !.username = <<>>]
       IN  IF ~auth.ok
           THEN Result(c1, STATE_AUTHORIZATION, FALSE,
                       <<Err("Invalid username or password: %v", <<>>, <<>>)>>,
                       <<acall>>, be)
           ELSE Result(c1, STATE_TRANSACTION, FALSE,
                       <<Ok("User Successfully Logged on", <<>>, <<>>)>>,
                       <<acall>>, be)

\* PassCommand.Run returning an error when the Authorizator rejects
PassRunRejectIsError(c, args, be, env) ==
  IF c.currentState # STATE_AUTHORIZATION THEN PlainError(c, be)
  ELSE IF ~AllowAuth(c) THEN PlainError(c, be)
  ELSE IF c.lastCommand # USER
  THEN Result(c, STATE_AUTHORIZATION, FALSE,
              <<Err("PASS can be executed only directly after USER command", <<>>, <<>>)>>,
              <<>>, be)
  ELSE IF Len(args) # 1 THEN PlainError(c, be)
  ELSE LET auth == Authorize(c.username, args[1])
           acall == Call("Authorize", c.username, auth.ok)
           c1 == [c EXCEPT !.user = auth.user, !.username = <<>>]
           lock == BackendLock(be, auth.user, env.ok1)
       IN  IF ~auth.ok
           THEN Result(c1, 0, TRUE,
                       <<Err("Invalid username or password: %v", <<>>, <<>>)>>,
                       <<acall>>, be)
           ELSE IF ~lock.ok
           THEN ErrorOf(c1, <<Err("Server was unable to lock maildrop", <<>>, <<>>)>>,
                        <<acall, lock.call>>, lock.be)
           ELSE Result(c1, STATE_TRANSACTION, FALSE,
                       <<Ok("User Successfully Logged on", <<>>, <<>>)>>,
                       <<acall, lock.call>>, lock.be)

\* PassCommand.Run without c.username = ""
PassRunKeepUsername(c, args, be, env) ==
  IF c.currentState # STATE_AUTHORIZATION THEN PlainError(c, be)
  ELSE IF ~AllowAuth(c) THEN PlainError(c, be)
  ELSE IF c.lastCommand # USER
  THEN Result(c, STATE_AUTHORIZATION, FALSE,
              <<Err("PASS can be executed only directly after USER command", <<>>, <<>>)>>,
              <<>>, be)
  ELSE IF Len(args) # 1 THEN PlainError(c, be)
  ELSE LET auth == Authorize(c.username, args[1])
           acall == Call("Authorize", c.username, auth.ok)
           c1 == [c EXCEPT !.user = auth.user]
           lock == BackendLock(be, auth.user, env.ok1)
       IN  IF ~auth.ok
           THEN Result(c1, STATE_AUTHORIZATION, FALSE,
                       <<Err("Invalid username or password: %v", <<>>, <<>>)>>,
                       <<acall>>, be)
           ELSE IF ~lock.ok
           THEN ErrorOf(c1, <<Err("Server was unable to lock maildrop", <<>>, <<>>)>>,
                        <<acall, lock.call>>, lock.be)
           ELSE Result(c1, STATE_TRANSACTION, FALSE,
                       <<Ok("User Successfully Logged on", <<>>, <<>>)>>,
                       <<acall, lock.call>>, lock.be)

\* PassCommand.Run
PassRun(c, args, be, env) ==
  IF c.currentState # STATE_AUTHORIZATION THEN PlainError(c, be)
  ELSE IF ~AllowAuth(c) THEN PlainError(c, be)
  ELSE IF c.lastCommand # USER
  THEN Result(c, STATE_AUTHORIZATION, FALSE,
              <<Err("PASS can be executed only directly after USER command", <<>>, <<>>)>>,
              <<>>, be)
  ELSE IF Len(args) # 1 THEN PlainError(c, be)
  ELSE LET auth == Authorize(c.username, args[1])
           acall == Call("Authorize", c.username, auth.ok)
           c1 == [c EXCEPT !.user = auth.user, !.username = <<>>]
           lock == BackendLock(be, auth.user, env.ok1)
       IN  IF ~auth.ok
           THEN Result(c1, STATE_AUTHORIZATION, FALSE,
                       <<Err("Invalid username or password: %v", <<>>, <<>>)>>,
                       <<acall>>, be)
           ELSE IF ~lock.ok
           THEN ErrorOf(c1, <<Err("Server was unable to lock maildrop", <<>>, <<>>)>>,
                        <<acall, lock.call>>, lock.be)
           ELSE Result(c1, STATE_TRANSACTION, FALSE,
                       <<Ok("User Successfully Logged on", <<>>, <<>>)>>,
                       <<acall, lock.call>>, lock.be)

\* StatCommand.Run without the test of the state
StatRunNoStateCheck(c, args, be, env) ==
  LET r == BackendStat(be, c.user, env.ok1)
  IN  IF ~r.ok THEN ErrorOf(c, <<>>, <<r.call>>, be)
      ELSE Result(c, STATE_TRANSACTION, FALSE,
                  <<Ok("%d %d", <<>>, <<r.messages, r.octets>>)>>, <<r.call>>, be)

\* StatCommand.Run
StatRun(c, args, be, env) ==
  LET r == BackendStat(be, c.user, env.ok1)
  IN  IF c.currentState # STATE_TRANSACTION THEN PlainError(c, be)
      ELSE IF ~r.ok THEN ErrorOf(c, <<>>, <<r.call>>, be)
      ELSE Result(c, STATE_TRANSACTION, FALSE,
                  <<Ok("%d %d", <<>>, <<r.messages, r.octets>>)>>, <<r.call>>, be)

\* the scan listing of ListCommand.Run and UidlCommand.Run: "%d %d", "%d %s"
Listing(items) == [i \in 1..Len(items) |-> Itoa(i) \o <<SP>> \o items[i]]

\* ListCommand.Run returning an error for a message that does not exist
ListRunNoSuchIsError(c, args, be, env) ==
  IF c.currentState # STATE_TRANSACTION THEN PlainError(c, be)
  ELSE IF Len(args) > 0
  THEN LET a == Atoi(args[1])
           r == BackendListMessage(be, c.user, a.val, env.ok1)
       IN  IF ~a.ok
           THEN ErrorOf(c, <<Err("Invalid argument: %s", args[1], <<>>)>>, <<>>, be)
           ELSE IF ~r.ok THEN ErrorOf(c, <<>>, <<r.call>>, be)
           ELSE IF ~r.exists
           THEN ErrorOf(c, <<Err("no such message", <<>>, <<>>)>>, <<r.call>>, be)
           ELSE Result(c, STATE_TRANSACTION, FALSE,
                       <<Ok("%d %d", <<>>, <<a.val, r.octets>>)>>, <<r.call>>, be)
  ELSE LET r == BackendList(be, c.user, env.ok1)
       IN  IF ~r.ok THEN ErrorOf(c, <<>>, <<r.call>>, be)
           ELSE Result(c, STATE_TRANSACTION, FALSE,
                       <<Ok("%d messages", <<>>, <<Len(r.octets)>>)>>
                         \o MultiLine(Listing([i \in 1..Len(r.octets) |-> Itoa(r.octets[i])])),
                       <<r.call>>, be)

\* ListCommand.Run
ListRun(c, args, be, env) ==
  IF c.currentState # STATE_TRANSACTION THEN PlainError(c, be)
  ELSE IF Len(args) > 0
  THEN LET a == Atoi(args[1])
           r == BackendListMessage(be, c.user, a.val, env.ok1)
       IN  IF ~a.ok
           THEN ErrorOf(c, <<Err("Invalid argument: %s", args[1], <<>>)>>, <<>>, be)
           ELSE IF ~r.ok THEN ErrorOf(c, <<>>, <<r.call>>, be)
           ELSE IF ~r.exists
           THEN Result(c, STATE_TRANSACTION, FALSE,
                       <<Err("no such message", <<>>, <<>>)>>, <<r.call>>, be)
           ELSE Result(c, STATE_TRANSACTION, FALSE,
                       <<Ok("%d %d", <<>>, <<a.val, r.octets>>)>>, <<r.call>>, be)
  ELSE LET r == BackendList(be, c.user, env.ok1)
       IN  IF ~r.ok THEN ErrorOf(c, <<>>, <<r.call>>, be)
           ELSE Result(c, STATE_TRANSACTION, FALSE,
                       <<Ok("%d messages", <<>>, <<Len(r.octets)>>)>>
                         \o MultiLine(Listing([i \in 1..Len(r.octets) |-> Itoa(r.octets[i])])),
                       <<r.call>>, be)

\* RetrCommand.Run
RetrRun(c, args, be, env) ==
  IF c.currentState # STATE_TRANSACTION THEN PlainError(c, be)
  ELSE IF Len(args) = 0
  THEN ErrorOf(c, <<Err("Missing argument for RETR command", <<>>, <<>>)>>, <<>>, be)
  ELSE LET a == Atoi(args[1])
           r == BackendRetr(be, c.user, a.val, env.ok1)
       IN  IF ~a.ok
           THEN ErrorOf(c, <<Err("Invalid argument: %s", args[1], <<>>)>>, <<>>, be)
           ELSE IF ~r.ok THEN ErrorOf(c, <<>>, <<r.call>>, be)
           ELSE Result(c, STATE_TRANSACTION, FALSE,
                       <<Ok("", <<>>, <<>>)>> \o MultiLine(Split(r.message, LF)),
                       <<r.call>>, be)

\* DeleCommand.Run calling the backend before it tests the argument
DeleRunCallsFirst(c, args, be, env) ==
  IF c.currentState # STATE_TRANSACTION THEN PlainError(c, be)
  ELSE LET a == IF Len(args) = 0 THEN [ok |-> FALSE, val |-> 0] ELSE Atoi(args[1])
           r == BackendDele(be, c.user, IF a.ok THEN a.val ELSE 1, env.ok1)
       IN  IF Len(args) = 0
           THEN ErrorOf(c, <<Err("Missing argument for DELE command", <<>>, <<>>)>>,
                        <<r.call>>, r.be)
           ELSE IF ~a.ok
           THEN ErrorOf(c, <<Err("Invalid argument: %s", args[1], <<>>)>>,
                        <<r.call>>, r.be)
           ELSE IF ~r.ok THEN ErrorOf(c, <<>>, <<r.call>>, r.be)
           ELSE Result(c, STATE_TRANSACTION, FALSE,
                       <<Ok("Message %d deleted", <<>>, <<a.val>>)>>, <<r.call>>, r.be)

\* DeleCommand.Run
DeleRun(c, args, be, env) ==
  IF c.currentState # STATE_TRANSACTION THEN PlainError(c, be)
  ELSE IF Len(args) = 0
  THEN ErrorOf(c, <<Err("Missing argument for DELE command", <<>>, <<>>)>>, <<>>, be)
  ELSE LET a == Atoi(args[1])
           r == BackendDele(be, c.user, a.val, env.ok1)
       IN  IF ~a.ok
           THEN ErrorOf(c, <<Err("Invalid argument: %s", args[1], <<>>)>>, <<>>, be)
           ELSE IF ~r.ok THEN ErrorOf(c, <<>>, <<r.call>>, r.be)
           ELSE Result(c, STATE_TRANSACTION, FALSE,
                       <<Ok("Message %d deleted", <<>>, <<a.val>>)>>, <<r.call>>, r.be)

\* NoopCommand.Run
NoopRun(c, args, be, env) ==
  IF c.currentState # STATE_TRANSACTION THEN PlainError(c, be)
  ELSE Result(c, STATE_TRANSACTION, FALSE, <<Ok("", <<>>, <<>>)>>, <<>>, be)

\* RsetCommand.Run without the call of backend.Rset
RsetRunNoCall(c, args, be, env) ==
  IF c.currentState # STATE_TRANSACTION THEN PlainError(c, be)
  ELSE Result(c, STATE_TRANSACTION, FALSE, <<Ok("", <<>>, <<>>)>>, <<>>, be)

\* RsetCommand.Run
RsetRun(c, args, be, env) ==
  LET r == BackendRset(be, c.user, env.ok1)
  IN  IF c.currentState # STATE_TRANSACTION THEN PlainError(c, be)
      ELSE IF ~r.ok THEN ErrorOf(c, <<>>, <<r.call>>, r.be)
      ELSE Result(c, STATE_TRANSACTION, FALSE, <<Ok("", <<>>, <<>>)>>, <<r.call>>, r.be)

\* UidlCommand.Run
UidlRun(c, args, be, env) ==
  IF c.currentState # STATE_TRANSACTION THEN PlainError(c, be)
  ELSE IF Len(args) > 0
  THEN LET a == Atoi(args[1])
           r == BackendUidlMessage(be, c.user, a.val, env.ok1)
       IN  IF ~a.ok
           THEN ErrorOf(c, <<Err("Invalid argument: %s", args[1], <<>>)>>, <<>>, be)
           ELSE IF ~r.ok THEN ErrorOf(c, <<>>, <<r.call>>, be)
           ELSE IF ~r.exists
           THEN Result(c, STATE_TRANSACTION, FALSE,
                       <<Err("no such message", <<>>, <<>>)>>, <<r.call>>, be)
           ELSE Result(c, STATE_TRANSACTION, FALSE,
                       <<Ok("%d %s", r.uid, <<a.val>>)>>, <<r.call>>, be)
  ELSE LET r == BackendUidl(be, c.user, env.ok1)
       IN  IF ~r.ok THEN ErrorOf(c, <<>>, <<r.call>>, be)
           ELSE Result(c, STATE_TRANSACTION, FALSE,
                       <<Ok("%d messages", <<>>, <<Len(r.uids)>>)>>
                         \o MultiLine(Listing(r.uids)),
                       <<r.call>>, be)

\* CapaCommand.Run refusing to run outside TRANSACTION
CapaRunNeedsTransaction(c, args, be, env) ==
  IF c.currentState # STATE_TRANSACTION THEN PlainError(c, be)
  ELSE Result(c, c.currentState, FALSE,
              <<Ok("", <<>>, <<>>)>> \o MultiLine(<<USER, UIDL, TOP>>), <<>>, be)

\* CapaCommand.Run
CapaRun(c, args, be, env) ==
  Result(c, c.currentState, FALSE,
         <<Ok("", <<>>, <<>>)>> \o MultiLine(<<USER, UIDL, TOP>>), <<>>, be)

\* TopCommand.Run
TopRun(c, args, be, env) ==
  IF c.currentState # STATE_TRANSACTION THEN PlainError(c, be)
  ELSE IF Len(args) # 2 THEN ErrorOf(c, <<>>, <<>>, be)
  ELSE LET a == Atoi(args[1])
           n == Atoi(args[2])
           r == BackendTop(be, c.user, a.val, n.val, env.ok1)
       IN  IF ~a.ok
           THEN ErrorOf(c, <<Err("Invalid argument: %s", args[1], <<>>)>>, <<>>, be)
           ELSE IF ~n.ok
           THEN ErrorOf(c, <<Err("Invalid argument: %s", args[2], <<>>)>>, <<>>, be)
           ELSE IF ~r.ok THEN ErrorOf(c, <<>>, <<r.call>>, be)
           ELSE Result(c, STATE_TRANSACTION, FALSE,
                       <<Ok("", <<>>, <<>>)>> \o MultiLine(r.lines), <<r.call>>, be)

\* exec.Run(&c, args) for exec := c.commands[cmd]
Run(cmd, c, args, be, env) ==
  CASE cmd = QUIT -> QuitRun(c, args, be, env)
    [] cmd = USER -> UserRun(c, args, be, env)
    [] cmd = PASS -> PassRun(c, args, be, env)
    [] cmd = STAT -> StatRun(c, args, be, env)
    [] cmd = LIST -> ListRun(c, args, be, env)
    [] cmd = RETR -> RetrRun(c, args, be, env)
    [] cmd = DELE -> DeleRun(c, args, be, env)
    [] cmd = NOOP -> NoopRun(c, args, be, env)
    [] cmd = RSET -> RsetRun(c, args, be, env)
    [] cmd = UIDL -> UidlRun(c, args, be, env)
    [] cmd = CAPA -> CapaRun(c, args, be, env)
    [] cmd = TOP -> TopRun(c, args, be, env)

(***************************************************************************)
(* The lines a client sends.                                               *)
(***************************************************************************)
NL == <<LF>>
CRLF == <<CR, LF>>

InputLines ==
  { QUIT \o CRLF,
    USER \o <<SP, "a">> \o CRLF, USER \o <<SP, "b">> \o NL, USER \o NL,
    PASS \o <<SP, "x">> \o CRLF, PASS \o <<SP, "y">> \o NL, PASS \o NL,
    STAT \o NL,
    LIST \o NL, LIST \o <<SP, "1">> \o NL, LIST \o <<SP, "9">> \o NL,
    LIST \o <<SP, "z">> \o NL,
    RETR \o <<SP, "1">> \o NL, RETR \o NL, RETR \o <<SP, "z">> \o NL,
    DELE \o <<SP, "1">> \o NL, DELE \o NL, DELE \o <<SP, "z">> \o NL,
    NOOP \o NL, <<"n","o","o","p",SP>> \o CRLF,
    RSET \o NL,
    UIDL \o NL, UIDL \o <<SP, "1">> \o NL, UIDL \o <<SP, "9">> \o NL,
    UIDL \o <<SP, "z">> \o NL,
    CAPA \o NL,
    TOP \o <<SP, "1", SP, "0">> \o NL, TOP \o <<SP, "1">> \o NL,
    TOP \o <<SP, "z", SP, "0">> \o NL, TOP \o <<SP, "1", SP, "z">> \o NL,
    <<"F","O","O">> \o NL, NL }

\* the lines of the two-connection specification: log in, work, log out
ConcLines ==
  { QUIT \o CRLF, USER \o <<SP, "a">> \o CRLF, PASS \o <<SP, "x">> \o CRLF,
    DELE \o <<SP, "1">> \o NL, <<"F","O","O">> \o NL }

\* the lines of the specification with a backend that keeps marks
MarkLines ==
  { QUIT \o CRLF, USER \o <<SP, "a">> \o CRLF, PASS \o <<SP, "x">> \o CRLF,
    STAT \o NL, LIST \o NL, RSET \o NL,
    DELE \o <<SP, "1">> \o NL, DELE \o <<SP, "2">> \o NL }

\* the lines of the specification of the argument errors: log in, then
\* verbs with missing, surplus or non-numeric arguments, and some well-formed
ArgLines ==
  { QUIT \o CRLF, USER \o <<SP, "a">> \o CRLF, PASS \o <<SP, "x">> \o CRLF,
    RETR \o NL, RETR \o <<SP, "z">> \o NL, RETR \o <<SP, "1">> \o NL,
    DELE \o NL, DELE \o <<SP, "z">> \o NL,
    LIST \o <<SP, "z">> \o NL, LIST \o <<SP, "1">> \o NL,
    UIDL \o <<SP, "z">> \o NL,
    TOP \o NL, TOP \o <<SP, "1">> \o NL, TOP \o <<SP, "1", SP, "0", SP, "0">> \o NL,
    TOP \o <<SP, "z", SP, "0">> \o NL, TOP \o <<SP, "1", SP, "z">> \o NL,
    TOP \o <<SP, "1", SP, "0">> \o NL }

\* parseInput, tabulated once over the lines of the model
Parsed == [input \in InputLines \cup MarkLines \cup ArgLines |-> parseInput(input)]

\* the backend outcomes to consider for a verb: QUIT makes up to two backend
\* calls, USER, NOOP, CAPA and unknown verbs none, every other verb one
EnvsOf(cmd) ==
  IF cmd = QUIT THEN [ok1 : BOOLEAN, ok2 : BOOLEAN]
  ELSE IF cmd \in commands \ {USER, NOOP, CAPA} THEN [ok1 : BOOLEAN, ok2 : {TRUE}]
  ELSE [ok1 : {TRUE}, ok2 : {TRUE}]

(***************************************************************************)
(* The server: connection slots, each running one Client at a time.        *)
(***************************************************************************)
Conns == {1, 2}

VARIABLES
  server,    \* Server: the AllowInsecureAuth configuration
  client,    \* client[k]: the Client of slot k (conn: "none", "open", "closed")
  backend,   \* the Backend's state: the locked identities
  accepts,   \* connections accepted so far
  panicked,  \* a handler goroutine panicked: the process is gone
  h,         \* h[k]: what the last step of slot k did (history, not program state)
  fn,        \* the last call of a pure function: its name, argument and result
  time       \* the clock (now), the read deadline of each connection, and when
             \* each connection last completed a line or was greeted (idleSince)

vars == <<server, client, backend, accepts, panicked, h, fn, time>>

\* the clock at start: no deadline is set
NoTime == [now |-> 0, deadline |-> [k \in Conns |-> 0], idleSince |-> [k \in Conns |-> 0]]

\* no pure function has been called
NoCall == [op |-> "none", in |-> <<>>, out |-> <<>>]

\* newClient, and the zero Client of a slot that has no connection yet
newClient(conn, allowInsecureAuth, tls) ==
  [conn |-> conn, isAlive |-> FALSE, currentState |-> STATE_AUTHORIZATION,
   user |-> NoUser, username |-> <<>>, lastCommand |-> <<>>,
   allowInsecureAuth |-> allowInsecureAuth, tls |-> tls]

\* the history of a slot at accept
PreOf(c) == [currentState |-> c.currentState, user |-> c.user, username |-> c.username]

\* the replies STAT and LIST give to client c on backend be
View(c, be) ==
  [stat |-> StatRun(c, <<>>, be, [ok1 |-> TRUE, ok2 |-> TRUE]).out,
   list |-> ListRun(c, <<>>, be, [ok1 |-> TRUE, ok2 |-> TRUE]).out]

NoView == [stat |-> <<>>, list |-> <<>>]

NoHistory(c) ==
  [kind |-> "none", input |-> <<>>, err |-> FALSE, pre |-> PreOf(c),
   out |-> <<>>, calls |-> <<>>, prevUserOk |-> FALSE,
   nLock |-> 0, nUnlock |-> 0, nUpdate |-> 0, nWelcome |-> 0,
   base |-> NoView, marked |-> FALSE]

Count(calls, op, oks) ==
  Cardinality({i \in 1..Len(calls) : calls[i].op = op /\ calls[i].ok \in oks})

\* the greeting lines among the lines written
Greetings(out) == Cardinality({i \in 1..Len(out) : out[i] = Welcome})

\* the history after a step of kind `kind` on `input` that took the client
\* from pre, wrote out and made calls
History(old, kind, input, err, pre, out, calls) ==
  [kind |-> kind, input |-> input, err |-> err, pre |-> PreOf(pre),
   out |-> out, calls |-> calls,
   prevUserOk |-> (old.kind = "line" /\ Parsed[old.input].cmd = USER
                   /\ old.out = <<Ok("", <<>>, <<>>)>>),
   nLock |-> old.nLock + Count(calls, "Lock", {TRUE}),
   nUnlock |-> old.nUnlock + Count(calls, "Unlock", BOOLEAN),
   nUpdate |-> old.nUpdate + Count(calls, "Update", BOOLEAN),
   nWelcome |-> old.nWelcome + Greetings(out),
   base |-> old.base, marked |-> old.marked]

\* the history hist of a step that left client c and backend be: the view
\* the session had when it entered TRANSACTION, and whether a message has
\* been marked as deleted in it
Marks(hist, c, be) ==
  [hist EXCEPT
     !.base = IF hist.pre.currentState = STATE_AUTHORIZATION
                 /\ c.currentState = STATE_TRANSACTION
              THEN View(c, be) ELSE @,
     !.marked = @ \/ be.deleted # {}]

Init ==
  /\ server \in [AllowInsecureAuth : BOOLEAN]
  /\ client = [k \in Conns |-> newClient("none", FALSE, FALSE)]
  /\ backend = DummyState
  /\ accepts = 0
  /\ panicked = FALSE
  /\ h = [k \in Conns |-> NoHistory(newClient("none", FALSE, FALSE))]
  /\ fn = NoCall
  /\ time = NoTime

\* Server.Serve and Client.handle up to the loop, without c.printer.Welcome()
AcceptNoWelcome(k, max) ==
  /\ ~panicked
  /\ client[k].conn # "open"
  /\ accepts < max
  /\ \E tls \in BOOLEAN :
       LET c == [newClient("open", server.AllowInsecureAuth, tls) EXCEPT !.isAlive = TRUE]
       IN  /\ client' = [client EXCEPT ![k] = c]
           /\ h' = [h EXCEPT ![k] = History(NoHistory(c), "accept", <<>>, FALSE, c,
                                            <<>>, <<>>)]
  /\ accepts' = accepts + 1
  /\ time' = [time EXCEPT !.deadline[k] = time.now + Minute, !.idleSince[k] = time.now]
  /\ UNCHANGED <<server, backend, panicked, fn>>

\* Server.Serve accepts a connection; newClient; Client.handle up to the loop:
\* the read deadline is set, isAlive becomes true, the greeting is written
Accept(k, max) ==
  /\ ~panicked
  /\ client[k].conn # "open"
  /\ accepts < max
  /\ \E tls \in BOOLEAN :
       LET c == [newClient("open", server.AllowInsecureAuth, tls) EXCEPT !.isAlive = TRUE]
       IN  /\ client' = [client EXCEPT ![k] = c]
           /\ h' = [h EXCEPT ![k] = History(NoHistory(c), "accept", <<>>, FALSE, c,
                                            <<Welcome>>, <<>>)]
  /\ accepts' = accepts + 1
  /\ time' = [time EXCEPT !.deadline[k] = time.now + Minute, !.idleSince[k] = time.now]
  /\ UNCHANGED <<server, backend, panicked, fn>>

\* Client.handle on a read failure, without the unlock
ReadFailNoUnlock(k) ==
  /\ ~panicked
  /\ client[k].conn = "open"
  /\ client' = [client EXCEPT ![k] = [@ EXCEPT !.conn = "closed"]]
  /\ h' = [h EXCEPT ![k] = History(@, "readfail", <<>>, FALSE, client[k], <<>>, <<>>)]
  /\ UNCHANGED <<server, backend, accepts, panicked, fn, time>>

\* Client.handle on a read failure, without the deferred conn.Close()
ReadFailNoClose(k) ==
  /\ ~panicked
  /\ client[k].conn = "open"
  /\ \E env \in EnvsOf(RSET) :
       LET c == client[k]
           unl == BackendUnlock(backend, c.user, env.ok1)
           calls == IF Len(c.user) > 0 THEN <<unl.call>> ELSE <<>>
       IN  /\ backend' = IF Len(c.user) > 0 THEN unl.be ELSE backend
           /\ client' = [client EXCEPT ![k] = [c EXCEPT !.isAlive = FALSE]]
           /\ h' = [h EXCEPT ![k] = History(@, "readfail", <<>>, FALSE, c, <<>>, calls)]
  /\ UNCHANGED <<server, accepts, panicked, fn, time>>

\* Client.handle: reader.ReadString fails (end of stream, transport error or
\* deadline): unlock if a user is set, break, and the deferred conn.Close()
ReadFail(k) ==
  /\ ~panicked
  /\ client[k].conn = "open"
  /\ \E env \in EnvsOf(RSET) :
       LET c == client[k]
           unl == BackendUnlock(backend, c.user, env.ok1)
           calls == IF Len(c.user) > 0 THEN <<unl.call>> ELSE <<>>
       IN  /\ backend' = IF Len(c.user) > 0 THEN unl.be ELSE backend
           /\ client' = [client EXCEPT ![k] = [c EXCEPT !.conn = "closed"]]
           /\ h' = [h EXCEPT ![k] = History(@, "readfail", <<>>, FALSE, c, <<>>, calls)]
  /\ UNCHANGED <<server, accepts, panicked, fn, time>>

\* Client.handle ending the session on a verb that is not in c.commands
UnknownEndsSession(c, cmd, be) ==
  Result([c EXCEPT !.isAlive = FALSE], 0, FALSE,
         <<Err("Invalid command %s", cmd, <<>>)>>, <<>>, be)

\* Client.handle, the verb is not in c.commands: the reply, and continue
Unknown(c, cmd, be) ==
  Result(c, 0, FALSE, <<Err("Invalid command %s", cmd, <<>>)>>, <<>>, be)

\* Client.handle: what is on the wire after exec.Run returned r: the
\* handler's own lines, then the generic line when it returned an error
Replies(cmd, r) ==
  IF r.err /\ ~r.panic
  THEN r.out \o <<Err("Error executing command %s", cmd, <<>>)>>
  ELSE r.out

\* Client.handle setting lastCommand and currentState whatever exec.Run returned
ApplyAlways(cmd, r) ==
  [r.c EXCEPT !.lastCommand = cmd, !.currentState = r.state]

\* Client.handle: lastCommand and currentState are set when exec.Run
\* returned no error, and left alone (continue) when it returned one
Apply(cmd, r) ==
  IF ~r.err
  THEN [r.c EXCEPT !.lastCommand = cmd, !.currentState = r.state]
  ELSE r.c

\* Client.handle: one iteration of the loop on a line that was read: parse,
\* look the verb up, run the handler, apply its result, test isAlive; when
\* the loop ends (or the handler panics) the deferred conn.Close() runs.
\* The read returns a line only before the deadline, which is not moved
Handle(k, input, env) ==
  /\ ~panicked
  /\ client[k].conn = "open"
  /\ time.now < time.deadline[k]
  /\ LET c == client[k]
         p == Parsed[input]
         known == p.cmd \in commands
         r == IF known THEN Run(p.cmd, c, p.args, backend, env)
              ELSE Unknown(c, p.cmd, backend)
         out == IF known THEN Replies(p.cmd, r) ELSE r.out
         c1 == IF known THEN Apply(p.cmd, r) ELSE r.c
         c2 == IF r.panic \/ ~c1.isAlive THEN [c1 EXCEPT !.conn = "closed"] ELSE c1
     IN  /\ client' = [client EXCEPT ![k] = c2]
         /\ backend' = r.be
         /\ panicked' = r.panic
         /\ h' = [h EXCEPT ![k] = Marks(History(@, "line", input,
                                                known /\ r.err /\ ~r.panic,
                                                c, out, r.calls), c2, r.be)]
  /\ time' = [time EXCEPT !.idleSince[k] = time.now]
  /\ UNCHANGED <<server, accepts, fn>>

\* a line of `lines` whose verb is cmd is read and handled
Command(k, lines, cmd) ==
  \E input \in {l \in lines : Parsed[l].cmd = cmd}, env \in EnvsOf(cmd) :
    Handle(k, input, env)

Invalid(k, lines) ==
  \E input \in {l \in lines : Parsed[l].cmd \notin commands} :
    Handle(k, input, [ok1 |-> TRUE, ok2 |-> TRUE])

Quit(k, lines) == Command(k, lines, QUIT)
User(k, lines) == Command(k, lines, USER)
Pass(k, lines) == Command(k, lines, PASS)
Stat(k, lines) == Command(k, lines, STAT)
List(k, lines) == Command(k, lines, LIST)
Retr(k, lines) == Command(k, lines, RETR)
Dele(k, lines) == Command(k, lines, DELE)
Noop(k, lines) == Command(k, lines, NOOP)
Rset(k, lines) == Command(k, lines, RSET)
Uidl(k, lines) == Command(k, lines, UIDL)
Capa(k, lines) == Command(k, lines, CAPA)
Top(k, lines) == Command(k, lines, TOP)

\* one connection slot, every line
Next ==
  \E k \in {1} :
    \/ Accept(k, MaxSessions)
    \/ ReadFail(k)
    \/ Invalid(k, InputLines)
    \/ Quit(k, InputLines)
    \/ User(k, InputLines)
    \/ Pass(k, InputLines)
    \/ Stat(k, InputLines)
    \/ List(k, InputLines)
    \/ Retr(k, InputLines)
    \/ Dele(k, InputLines)
    \/ Noop(k, InputLines)
    \/ Rset(k, InputLines)
    \/ Uidl(k, InputLines)
    \/ Capa(k, InputLines)
    \/ Top(k, InputLines)

Spec == Init /\ [][Next]_vars

\* the client of the one connection slot eventually sends QUIT, closes the
\* stream or lets the read deadline pass: the read loop does not read other
\* lines forever
SpecLive == Spec /\ WF_vars(ReadFail(1) \/ Quit(1, InputLines))

\* reader.ReadString fails because the read deadline has passed
Timeout(k) == time.now >= time.deadline[k] /\ ReadFail(k)

\* the clock advances; a read that is pending at its deadline fails before
\* the clock moves on
Tick ==
  /\ time.now < MaxTime
  /\ \A k \in Conns : client[k].conn = "open" => time.now < time.deadline[k]
  /\ time' = [time EXCEPT !.now = @ + 1]
  /\ UNCHANGED <<server, client, backend, accepts, panicked, h, fn>>

\* the lines of the specification with the clock
TimedLines == {USER \o <<SP, "a">> \o CRLF, NOOP \o NL, QUIT \o CRLF}

\* one connection slot and the clock
NextTimed ==
  \/ Tick
  \/ \E k \in {1} :
       \/ Accept(k, MaxSessions)
       \/ ReadFail(k)
       \/ Timeout(k)
       \/ User(k, TimedLines)
       \/ Noop(k, TimedLines)
       \/ Quit(k, TimedLines)

SpecTimed == Init /\ [][NextTimed]_vars

\* one connection slot on a backend that keeps the deletion marks
InitMarks ==
  /\ server = [AllowInsecureAuth |-> TRUE]
  /\ client = [k \in Conns |-> newClient("none", FALSE, FALSE)]
  /\ backend = KeepingState
  /\ accepts = 0
  /\ panicked = FALSE
  /\ h = [k \in Conns |-> NoHistory(newClient("none", FALSE, FALSE))]
  /\ fn = NoCall
  /\ time = NoTime

NextMarks ==
  \E k \in {1} :
    \/ Accept(k, MaxSessions)
    \/ ReadFail(k)
    \/ Quit(k, MarkLines)
    \/ User(k, MarkLines)
    \/ Pass(k, MarkLines)
    \/ Stat(k, MarkLines)
    \/ List(k, MarkLines)
    \/ Dele(k, MarkLines)
    \/ Rset(k, MarkLines)

SpecMarks == InitMarks /\ [][NextMarks]_vars

\* one connection slot on a backend that keeps the deletion marks, with the
\* lines of the argument errors
NextArgs ==
  \E k \in {1} :
    \/ Accept(k, MaxSessions)
    \/ ReadFail(k)
    \/ Quit(k, ArgLines)
    \/ User(k, ArgLines)
    \/ Pass(k, ArgLines)
    \/ List(k, ArgLines)
    \/ Retr(k, ArgLines)
    \/ Dele(k, ArgLines)
    \/ Uidl(k, ArgLines)
    \/ Top(k, ArgLines)

SpecArgs == InitMarks /\ [][NextArgs]_vars

\* PASS against a backend whose Lock fails only while the identity is locked
PassLocked(k, lines) ==
  \E input \in {l \in lines : Parsed[l].cmd = PASS} :
    Handle(k, input, [ok1 |-> TRUE, ok2 |-> TRUE])

\* two concurrent connections
NextConc ==
  \E k \in Conns :
    \/ Accept(k, MaxAccepts)
    \/ ReadFail(k)
    \/ Invalid(k, ConcLines)
    \/ Quit(k, ConcLines)
    \/ User(k, ConcLines)
    \/ PassLocked(k, ConcLines)
    \/ Dele(k, ConcLines)

SpecConc == Init /\ [][NextConc]_vars

(***************************************************************************)
(* Vocabulary of the properties: what the last step of slot k was.         *)
(***************************************************************************)
LineStep(k) == h[k].kind = "line"
CmdOf(k) == Parsed[h[k].input].cmd
ArgsOf(k) == Parsed[h[k].input].args
GenericError(cmd) == Err("Error executing command %s", cmd, <<>>)
InTransaction(k) ==
  client[k].conn = "open" /\ client[k].currentState = STATE_TRANSACTION
OpsOf(k) == [i \in 1..Len(h[k].calls) |-> h[k].calls[i].op]
Calls(k, op) == {i \in 1..Len(h[k].calls) : h[k].calls[i].op = op}
TransactionVerbs == {STAT, LIST, RETR, DELE, NOOP, RSET, UIDL, TOP}

(***************************************************************************)
(* C1 (stated as claimed; the code violates it).  With a backend whose     *)
(* Lock fails while the identity is locked and whose Unlock releases it,   *)
(* no two concurrent sessions are in TRANSACTION for the same identity.    *)
(***************************************************************************)
C1_OneTransactionPerIdentity ==
  \A j \in Conns, k \in Conns :
    (j # k /\ InTransaction(j) /\ InTransaction(k)) => client[j].user # client[k].user

(***************************************************************************)
(* C2 (stated as claimed; the code violates it).  A PASS whose preceding   *)
(* line in the session was not a USER answered +OK calls neither the       *)
(* Authorizator nor Lock and leaves the session in AUTHORIZATION.          *)
(***************************************************************************)
C2_PassOnlyRightAfterUser ==
  \A k \in Conns :
    (LineStep(k) /\ CmdOf(k) = PASS /\ ~h[k].prevUserOk)
      => /\ Calls(k, "Authorize") = {}
         /\ Calls(k, "Lock") = {}
         /\ client[k].currentState = h[k].pre.currentState

(***************************************************************************)
(* C3.  The state of a session is AUTHORIZATION, TRANSACTION or UPDATE,    *)
(* and a step leaves it unchanged, or takes it from AUTHORIZATION to       *)
(* TRANSACTION by PASS, or from TRANSACTION to UPDATE by QUIT.             *)
(***************************************************************************)
C3_StateMovesForward ==
  \A k \in Conns :
    /\ client[k].currentState \in {STATE_AUTHORIZATION, STATE_TRANSACTION, STATE_UPDATE}
    /\ h[k].kind \in {"line", "readfail"}
         => LET a == h[k].pre.currentState
                b == client[k].currentState
            IN  \/ a = b
                \/ a = STATE_AUTHORIZATION /\ b = STATE_TRANSACTION
                     /\ LineStep(k) /\ CmdOf(k) = PASS
                \/ a = STATE_TRANSACTION /\ b = STATE_UPDATE
                     /\ LineStep(k) /\ CmdOf(k) = QUIT

\* a session logged in by PASS and reached UPDATE by QUIT
C3_Witness ==
  \E k \in Conns :
    /\ LineStep(k) /\ CmdOf(k) = QUIT
    /\ h[k].pre.currentState = STATE_TRANSACTION
    /\ client[k].currentState = STATE_UPDATE
    /\ h[k].nLock = 1

(***************************************************************************)
(* C4.  Outside TRANSACTION each of STAT, LIST, RETR, DELE, NOOP, RSET,    *)
(* UIDL and TOP, whatever its arguments, is answered with the one line     *)
(* '-ERR Error executing command <VERB>', makes no backend call and leaves *)
(* the state unchanged.                                                    *)
(***************************************************************************)
C4_TransactionVerbsNeedTransaction ==
  \A k \in Conns :
    (LineStep(k) /\ CmdOf(k) \in TransactionVerbs
       /\ h[k].pre.currentState # STATE_TRANSACTION)
      => /\ h[k].out = <<GenericError(CmdOf(k))>>
         /\ h[k].calls = <<>>
         /\ client[k].currentState = h[k].pre.currentState

\* DELE 1 was sent in AUTHORIZATION
C4_Witness ==
  \E k \in Conns :
    /\ LineStep(k) /\ CmdOf(k) = DELE /\ ArgsOf(k) = <<<<"1">>>>
    /\ h[k].pre.currentState = STATE_AUTHORIZATION
    /\ h[k].out = <<GenericError(DELE)>>

(***************************************************************************)
(* C5.  In TRANSACTION or UPDATE, USER and PASS fail with the              *)
(* invalid-state error: no Authorizator or Lock call is made, and the      *)
(* state, the pending username and the authenticated user are unchanged.   *)
(***************************************************************************)
C5_UserPassNeedAuthorization ==
  \A k \in Conns :
    (LineStep(k) /\ CmdOf(k) \in {USER, PASS}
       /\ h[k].pre.currentState \in {STATE_TRANSACTION, STATE_UPDATE})
      => /\ h[k].err
         /\ h[k].out = <<GenericError(CmdOf(k))>>
         /\ h[k].calls = <<>>
         /\ client[k].currentState = h[k].pre.currentState
         /\ client[k].username = h[k].pre.username
         /\ client[k].user = h[k].pre.user

\* a well-formed USER line was sent in TRANSACTION
C5_Witness ==
  \E k \in Conns :
    /\ LineStep(k) /\ CmdOf(k) = USER /\ Len(ArgsOf(k)) = 1
    /\ h[k].pre.currentState = STATE_TRANSACTION
    /\ h[k].err

(***************************************************************************)
(* C6 (stated as claimed; the code violates it).  When a session that      *)
(* entered TRANSACTION has ended, its Lock has succeeded exactly once and  *)
(* it has called Unlock exactly once.                                      *)
(***************************************************************************)
C6_LockOnceUnlockOnce ==
  \A k \in Conns :
    (client[k].conn = "closed" /\ h[k].nLock >= 1)
      => h[k].nLock = 1 /\ h[k].nUnlock = 1

(***************************************************************************)
(* C7 (stated as claimed; the code violates it).  QUIT in TRANSACTION      *)
(* calls the backend's Update and then its Unlock, also when Update        *)
(* returned an error.                                                      *)
(***************************************************************************)
C7_QuitCommitsThenUnlocks ==
  \A k \in Conns :
    (LineStep(k) /\ CmdOf(k) = QUIT /\ h[k].pre.currentState = STATE_TRANSACTION)
      => OpsOf(k) = <<"Update", "Unlock">>

(***************************************************************************)
(* C8.  After a QUIT, in any state and whatever Update and Unlock          *)
(* returned, isAlive is false and the connection is closed, so that no     *)
(* further line is read; when no backend call failed the reply is          *)
(* '+OK Goodbye'.                                                          *)
(***************************************************************************)
C8_QuitEndsSession ==
  \A k \in Conns :
    (LineStep(k) /\ CmdOf(k) = QUIT)
      => /\ ~client[k].isAlive
         /\ client[k].conn = "closed"
         /\ (\A i \in 1..Len(h[k].calls) : h[k].calls[i].ok)
              => h[k].out = <<Ok("Goodbye", <<>>, <<>>)>>

\* a QUIT in TRANSACTION whose commit failed
C8_Witness ==
  \E k \in Conns :
    /\ LineStep(k) /\ CmdOf(k) = QUIT
    /\ h[k].pre.currentState = STATE_TRANSACTION
    /\ \E i \in Calls(k, "Update") : ~h[k].calls[i].ok
    /\ client[k].conn = "closed"

(***************************************************************************)
(* C9.  A read failure in TRANSACTION calls Unlock once, for the           *)
(* authenticated identity, writes nothing and closes the connection,       *)
(* whether or not Unlock returned an error.                                *)
(***************************************************************************)
C9_ReadFailureUnlocks ==
  \A k \in Conns :
    (h[k].kind = "readfail" /\ h[k].pre.currentState = STATE_TRANSACTION)
      => /\ OpsOf(k) = <<"Unlock">>
         /\ h[k].pre.user # NoUser
         /\ h[k].calls[1].user = h[k].pre.user
         /\ h[k].out = <<>>
         /\ client[k].conn = "closed"

\* a read failure in TRANSACTION whose Unlock returned an error
C9_Witness ==
  \E k \in Conns :
    /\ h[k].kind = "readfail"
    /\ h[k].pre.currentState = STATE_TRANSACTION
    /\ Len(h[k].calls) = 1 /\ ~h[k].calls[1].ok
    /\ client[k].conn = "closed"

(***************************************************************************)
(* C10.  In a session where insecure authentication is not enabled and     *)
(* the transport is not encrypted, every USER and PASS returns a handler   *)
(* error, and the session never has a pending username, never calls the    *)
(* Authorizator or Lock, and never leaves AUTHORIZATION.                   *)
(***************************************************************************)
C10_NoAuthOnInsecureTransport ==
  \A k \in Conns :
    (client[k].conn # "none" /\ ~AllowAuth(client[k]))
      => /\ client[k].username = <<>>
         /\ client[k].user = NoUser
         /\ client[k].currentState = STATE_AUTHORIZATION
         /\ h[k].nLock = 0
         /\ Calls(k, "Authorize") = {} /\ Calls(k, "Lock") = {}
         /\ (LineStep(k) /\ CmdOf(k) \in {USER, PASS})
              => h[k].err /\ h[k].out = <<GenericError(CmdOf(k))>>

\* PASS x was sent on a plain connection of a server without insecure auth
C10_Witness ==
  \E k \in Conns :
    /\ ~AllowAuth(client[k])
    /\ LineStep(k) /\ CmdOf(k) = PASS /\ ArgsOf(k) = <<<<"x">>>>
    /\ h[k].err

(***************************************************************************)
(* C11 (stated as claimed; the code violates it).  c.user goes from nil    *)
(* to an identity only in a PASS step in which the Authorizator accepted   *)
(* and Lock succeeded: not in USER, not in a rejected PASS, not in a PASS  *)
(* whose Lock failed.                                                      *)
(***************************************************************************)
C11_UserSetOnlyBySuccessfulPass ==
  \A k \in Conns :
    (LineStep(k) /\ h[k].pre.user = NoUser /\ client[k].user # NoUser)
      => /\ CmdOf(k) = PASS
         /\ \E i \in Calls(k, "Authorize") : h[k].calls[i].ok
         /\ \E i \in Calls(k, "Lock") : h[k].calls[i].ok

C13_UnknownVerbChangesNothing ==
  \A k \in Conns :
    (LineStep(k) /\ CmdOf(k) \notin commands)
      => /\ h[k].out = <<Err("Invalid command %s", CmdOf(k), <<>>)>>
         /\ h[k].calls = <<>>
         /\ ~h[k].err
         /\ PreOf(client[k]) = h[k].pre
         /\ client[k].conn = "open" /\ client[k].isAlive

\* the empty line was read in TRANSACTION, with an identity authenticated
C13_Witness ==
  \E k \in Conns :
    /\ LineStep(k) /\ CmdOf(k) = <<>>
    /\ h[k].pre.currentState = STATE_TRANSACTION /\ h[k].pre.user # NoUser

ErrLines(out) == {i \in 1..Len(out) : out[i].st = "-ERR"}

\* the line is a protocol error: its verb is unknown, or its handler
\* returned an error before it called the backend or the Authorizator
\* (wrong state, wrong number of arguments, malformed number)
ProtocolError(k) ==
  LineStep(k) /\ (CmdOf(k) \notin commands \/ (h[k].err /\ h[k].calls = <<>>))

(***************************************************************************)
(* C14 (stated as claimed; the code violates it).  A protocol-error line   *)
(* is answered with exactly one -ERR line.                                 *)
(***************************************************************************)
C14_OneErrPerProtocolError ==
  \A k \in Conns : ProtocolError(k) => Cardinality(ErrLines(h[k].out)) = 1

(***************************************************************************)
(* C15.  USER u answered +OK leaves u as c.username; a PASS p read right   *)
(* after it, with the Authorizator accepting (u, p) and Lock not failing,  *)
(* calls Authorize with u, then Lock once with the identity returned, and  *)
(* nothing else; writes the one line "+OK User Successfully Logged on";    *)
(* and leaves the session in TRANSACTION.                                  *)
(***************************************************************************)
C15_UserThenPassLogsOn ==
  \A k \in Conns :
    /\ (LineStep(k) /\ CmdOf(k) = USER /\ h[k].out = <<Ok("", <<>>, <<>>)>>)
         => (Len(ArgsOf(k)) = 1 /\ client[k].username = ArgsOf(k)[1])
    /\ (/\ LineStep(k) /\ CmdOf(k) = PASS /\ h[k].prevUserOk
        /\ Len(ArgsOf(k)) = 1
        /\ Authorize(h[k].pre.username, ArgsOf(k)[1]).ok
        /\ ~\E i \in Calls(k, "Lock") : ~h[k].calls[i].ok)
         => /\ h[k].calls =
                 << Call("Authorize", h[k].pre.username, TRUE),
                    Call("Lock", Authorize(h[k].pre.username, ArgsOf(k)[1]).user, TRUE) >>
            /\ h[k].out = <<Ok("User Successfully Logged on", <<>>, <<>>)>>
            /\ ~h[k].err
            /\ client[k].currentState = STATE_TRANSACTION

\* PASS right after USER +OK, accepted, Lock succeeded
C15_Witness ==
  \E k \in Conns :
    /\ LineStep(k) /\ CmdOf(k) = PASS /\ h[k].prevUserOk
    /\ Len(ArgsOf(k)) = 1
    /\ Authorize(h[k].pre.username, ArgsOf(k)[1]).ok
    /\ \E i \in Calls(k, "Lock") : h[k].calls[i].ok

\* the PASS step called the Authorizator and it rejected
PassRejected(k) ==
  /\ LineStep(k) /\ CmdOf(k) = PASS
  /\ \E i \in Calls(k, "Authorize") : ~h[k].calls[i].ok

(***************************************************************************)
(* C16.  When the Authorizator rejects, PASS writes one -ERR line itself   *)
(* and returns no error (so no generic line follows), Lock is not called,  *)
(* the session stays in AUTHORIZATION, open and alive.                     *)
(***************************************************************************)
C16_RejectedPassStaysInAuthorization ==
  \A k \in Conns :
    PassRejected(k)
      => /\ h[k].out = <<Err("Invalid username or password: %v", <<>>, <<>>)>>
         /\ ~h[k].err
         /\ Calls(k, "Lock") = {}
         /\ client[k].currentState = STATE_AUTHORIZATION
         /\ client[k].conn = "open" /\ client[k].isAlive

C16_Witness == \E k \in Conns : PassRejected(k)

(***************************************************************************)
(* C17.  After a PASS that reached the Authorizator, accepted or rejected, *)
(* c.username is empty.                                                    *)
(***************************************************************************)
C17_PassClearsPendingUsername ==
  \A k \in Conns :
    (LineStep(k) /\ CmdOf(k) = PASS /\ Calls(k, "Authorize") # {})
      => client[k].username = <<>>

\* a PASS reached the Authorizator with a pending username, and was rejected
C17_Witness ==
  \E k \in Conns : PassRejected(k) /\ h[k].pre.username # <<>>

(***************************************************************************)
(* The pure functions, called on their own: Printer.MultiLine on a list of *)
(* content lines and Client.parseInput on an input line.  The argument is  *)
(* drawn in the initial state and one step applies the function to it.     *)
(***************************************************************************)
StringsUpTo(chars, n) == UNION {[1..m -> chars] : m \in 0..n}

\* Fprintf(p.conn, ".%s\r\n", line), Fprintf(p.conn, "%s\r\n", line) and
\* Fprint(p.conn, ".\r\n"): the bytes of one line of a multi-line reply
LineBytes(line) ==
  IF line.st = "." THEN <<".">> \o CRLF ELSE line.s \o CRLF

RECURSIVE Concat(_)
Concat(seqs) == IF seqs = <<>> THEN <<>> ELSE Head(seqs) \o Concat(Tail(seqs))

\* Printer.MultiLine: the bytes written to the connection
MultiLineBytes(msgs) ==
  LET lines == MultiLine(msgs)
  IN  Concat([i \in 1..Len(lines) |-> LineBytes(lines[i])])

\* TestPrinter_MultiLine's list, and the list with lines that begin with dots
MultiLineExample == << <<"m","u","l","t","i">>, <<"l","i","n","e">> >>
DotExample ==
  << <<"n","o","r","m","a","l">>,
     <<".","d","o","t","l","i","n","e">>,
     <<".",".","d","o","u","b","l","e">> >>

MsgLists ==
  StringsUpTo(StringsUpTo({".", "a", CR}, MaxLineLen), MaxLines)
    \cup {MultiLineExample, DotExample}

\* TestClient_parseInput's table, and verbs of the registry in other cases
ParseExamples ==
  { <<"C","O","M","M","A","N","D","1">>,
    <<"C","O","M","M","A","N","D","1"," "," "," ">>,
    <<"C","O","M","M","A","N","D","1"," ",CR," ",LF," ">>,
    <<"c","o","m","m"," ","A","R","G">>,
    <<"C","O","M","M"," ","a","r","g">>,
    <<"C","O","M","M"," ","A","R","G","1"," ","A","R","G","2">>,
    <<"q","u","i","t",CR,LF>>,
    <<"Q","u","i","T",LF>>,
    <<" ","n","o","o","p",CR,LF>> }

ParseInputs ==
  StringsUpTo({"q", "Q", SP, CR, LF}, MaxInputLen) \cup ParseExamples

InitFn(inputs) ==
  /\ server = [AllowInsecureAuth |-> FALSE]
  /\ client = [k \in Conns |-> newClient("none", FALSE, FALSE)]
  /\ backend = DummyState
  /\ accepts = 0
  /\ panicked = FALSE
  /\ h = [k \in Conns |-> NoHistory(newClient("none", FALSE, FALSE))]
  /\ fn \in {[op |-> "none", in |-> x, out |-> <<>>] : x \in inputs}
  /\ time = NoTime

\* p.MultiLine(msgs)
CallMultiLine ==
  /\ fn.op = "none"
  /\ fn' = [op |-> "MultiLine", in |-> fn.in, out |-> MultiLineBytes(fn.in)]
  /\ UNCHANGED <<server, client, backend, accepts, panicked, h, time>>

InitPrinter == InitFn(MsgLists)
NextPrinter == CallMultiLine
SpecPrinter == InitPrinter /\ [][NextPrinter]_vars

\* c.parseInput(input)
CallParseInput ==
  /\ fn.op = "none"
  /\ fn' = [op |-> "parseInput", in |-> fn.in, out |-> parseInput(fn.in)]
  /\ UNCHANGED <<server, client, backend, accepts, panicked, h, time>>

InitParse == InitFn(ParseInputs)
NextParse == CallParseInput
SpecParse == InitParse /\ [][NextParse]_vars

\* what the claims say MultiLine writes for one line: the line without its
\* trailing CRs, with one more "." in front when it begins with "."
TrailingCRRemoved(line) == TrimRight(line, {CR})
StuffedAsClaimed(line) ==
  LET l == TrailingCRRemoved(line)
  IN  (IF l # <<>> /\ l[1] = "." THEN <<".">> ELSE <<>>) \o l \o CRLF

(***************************************************************************)
(* C18 (stated as claimed; the code violates it).  MultiLine writes, for   *)
(* each line in order, the line with its trailing CR removed, one more "." *)
(* in front exactly when it begins with ".", then CRLF; after the last     *)
(* line it writes "." CRLF.  For [normal, .dotline, ..double] it writes    *)
(* normal CRLF ..dotline CRLF ...double CRLF . CRLF.                       *)
(***************************************************************************)
C18_MultiLineStuffsAndTerminates ==
  fn.op = "MultiLine"
    => /\ fn.out = Concat([i \in 1..Len(fn.in) |-> StuffedAsClaimed(fn.in[i])])
                     \o <<".">> \o CRLF
       /\ fn.in = DotExample
            => fn.out = <<"n","o","r","m","a","l">> \o CRLF
                        \o <<".",".","d","o","t","l","i","n","e">> \o CRLF
                        \o <<".",".",".","d","o","u","b","l","e">> \o CRLF
                        \o <<".">> \o CRLF

\* the lines of a reply on the wire: the bytes between the CRLFs
RECURSIVE WireLinesFrom(_, _)
WireLinesFrom(bytes, cur) ==
  IF bytes = <<>> THEN (IF cur = <<>> THEN <<>> ELSE <<cur>>)
  ELSE IF Len(bytes) >= 2 /\ bytes[1] = CR /\ bytes[2] = LF
  THEN <<cur>> \o WireLinesFrom(SubSeq(bytes, 3, Len(bytes)), <<>>)
  ELSE WireLinesFrom(Tail(bytes), Append(cur, Head(bytes)))

WireLines(bytes) == WireLinesFrom(bytes, <<>>)

\* what a POP3 client does with a content line: one leading "." is dropped
Unstuff(line) == IF line # <<>> /\ line[1] = "." THEN Tail(line) ELSE line

NoLF(msgs) == \A i \in 1..Len(msgs) : \A j \in 1..Len(msgs[i]) : msgs[i][j] # LF

(***************************************************************************)
(* C19 (stated as claimed; the code violates it).  For content lines with  *)
(* no LF the reply has exactly one line equal to ".", its last; dropping   *)
(* one leading "." from each line before it gives back the content lines   *)
(* with only their trailing CR removed.                                    *)
(***************************************************************************)
C19_MultiLineRoundTrip ==
  (fn.op = "MultiLine" /\ NoLF(fn.in))
    => LET w == WireLines(fn.out)
       IN  /\ {i \in 1..Len(w) : w[i] = <<".">>} = {Len(w)}
           /\ Len(w) = Len(fn.in) + 1
           /\ \A i \in 1..Len(fn.in) : Unstuff(w[i]) = TrailingCRRemoved(fn.in[i])

\* the part of C19 the code keeps: one "." line, the last one
C19_OneTerminator ==
  (fn.op = "MultiLine" /\ NoLF(fn.in))
    => LET w == WireLines(fn.out)
       IN  {i \in 1..Len(w) : w[i] = <<".">>} = {Len(w)} /\ Len(w) = Len(fn.in) + 1

(***************************************************************************)
(* C20 as stated (the code violates it): parseInput removes the trailing   *)
(* CR, LF and space characters only, splits the rest on single spaces,     *)
(* returns the first token uppercased and the other tokens unchanged.      *)
(***************************************************************************)
C20_ParseInputTrimsTrailing ==
  fn.op = "parseInput"
    => LET tokens == Split(TrimRight(fn.in, {CR, LF, SP}), SP)
       IN  fn.out = [cmd |-> ToUpper(tokens[1]), args |-> Tail(tokens)]

Blank == {CR, LF, SP}

\* the input without its leading and its trailing CR, LF and space characters
Core(input) ==
  LET solid == {i \in 1..Len(input) : input[i] \notin Blank}
  IN  IF solid = {} THEN <<>>
      ELSE SubSeq(input, CHOOSE i \in solid : \A j \in solid : i <= j,
                         CHOOSE i \in solid : \A j \in solid : j <= i)

\* the tokens with one space between each two
RECURSIVE Joined(_)
Joined(tokens) ==
  IF Len(tokens) = 1 THEN tokens[1]
  ELSE tokens[1] \o <<SP>> \o Joined(Tail(tokens))

(***************************************************************************)
(* C20 (amended).  parseInput removes the leading and the trailing CR, LF  *)
(* and space characters and splits the rest on single spaces: the verb is  *)
(* the first token with its letters uppercased, the arguments are the      *)
(* other tokens unchanged, no token holds a space; a verb followed only by *)
(* spaces, CR or LF has no arguments; the verb is the same whatever the    *)
(* letter case it is written in, so it selects the same handler.           *)
(***************************************************************************)
C20_ParseInputTrimsBothEnds ==
  fn.op = "parseInput"
    => LET core == Core(fn.in)
           verb == fn.out.cmd
           args == fn.out.args
           first == SubSeq(core, 1, Len(verb))
       IN  /\ Len(verb) <= Len(core)
           /\ \A i \in 1..Len(verb) :
                \/ \E n \in 1..26 : first[i] = Lower[n] /\ verb[i] = Upper[n]
                \/ (\A n \in 1..26 : first[i] # Lower[n]) /\ verb[i] = first[i]
           /\ Joined(<<first>> \o args) = core
           /\ \A i \in 1..Len(verb) : first[i] # SP
           /\ \A a \in 1..Len(args) : \A i \in 1..Len(args[a]) : args[a][i] # SP
           /\ (\A i \in 1..Len(core) : core[i] # SP) => args = <<>>
           /\ verb = parseInput(ToUpper(fn.in)).cmd
           /\ (verb \in commands) = (ToUpper(first) \in commands)

\* a lowercase verb after a leading space, followed by a lowercase argument
C20_Witness ==
  /\ fn.op = "parseInput"
  /\ fn.in = <<SP, "q", SP, "q">>
  /\ fn.out = [cmd |-> <<"Q">>, args |-> << <<"q">> >>]

(***************************************************************************)
(* C21.  In a session the greeting "+OK POPgun POP3 server ready" is       *)
(* written once: by the step that accepts the connection, as its only     *)
(* line, before any line is read; no later step writes it again.           *)
(***************************************************************************)
C21_GreetingOnceAndFirst ==
  \A k \in Conns :
    /\ client[k].conn # "none" => h[k].nWelcome = 1
    /\ h[k].kind = "accept" => h[k].out = <<Welcome>>
    /\ h[k].kind \in {"line", "readfail"} => Greetings(h[k].out) = 0

\* a session that was greeted has read a line and replied to it
C21_Witness ==
  \E k \in Conns : LineStep(k) /\ h[k].out # <<>> /\ h[k].nWelcome = 1

(***************************************************************************)
(* C22.  When the read loop of a session has exited, by a QUIT (whether it *)
(* succeeded or failed) or by a read failure (end of stream, transport     *)
(* error, deadline), its connection is closed; and with a client that      *)
(* eventually sends QUIT, closes the stream or stays silent past the       *)
(* deadline, every open session is eventually closed.                      *)
(***************************************************************************)
C22_SessionsEndClosed ==
  /\ [](\A k \in Conns :
          /\ h[k].kind = "readfail" => client[k].conn = "closed"
          /\ (LineStep(k) /\ CmdOf(k) = QUIT) => client[k].conn = "closed"
          /\ (client[k].conn # "none" /\ ~client[k].isAlive) => client[k].conn = "closed")
  /\ \A k \in Conns : (client[k].conn = "open") ~> (client[k].conn = "closed")

\* a QUIT whose commit failed has ended a TRANSACTION session, closed
C22_Witness ==
  \E k \in Conns :
    /\ LineStep(k) /\ CmdOf(k) = QUIT /\ h[k].err
    /\ h[k].pre.currentState = STATE_TRANSACTION
    /\ client[k].conn = "closed"

(***************************************************************************)
(* C23 (stated as claimed; the code violates it).  The read timeout is an  *)
(* idle timeout: a read fails on the deadline only when a minute has       *)
(* passed since the connection last completed a line (or was greeted).     *)
(***************************************************************************)
C23_TimeoutOnlyWhenIdle ==
  [][\A k \in Conns : Timeout(k) => time.now - time.idleSince[k] >= Minute]_vars

(***************************************************************************)
(* C24.  CAPA succeeds in every state a line is read in; it makes no       *)
(* backend or Authorizator call; currentState, c.username and c.user are   *)
(* what they were and the session stays open and alive; its reply is +OK,  *)
(* content lines among which USER, UIDL and TOP, and the terminator.       *)
(***************************************************************************)
C24_CapaIsStatic ==
  \A k \in Conns :
    (LineStep(k) /\ CmdOf(k) = CAPA)
      => LET out == h[k].out
         IN  /\ ~h[k].err
             /\ h[k].calls = <<>>
             /\ PreOf(client[k]) = h[k].pre
             /\ client[k].conn = "open" /\ client[k].isAlive
             /\ Len(out) >= 2
             /\ out[1] = Ok("", <<>>, <<>>)
             /\ out[Len(out)].st = "."
             /\ \A i \in 2..(Len(out) - 1) : out[i].st = "data"
             /\ {USER, UIDL, TOP} \subseteq {out[i].s : i \in 2..(Len(out) - 1)}

\* CAPA before authentication
C24_Witness ==
  \E k \in Conns :
    /\ LineStep(k) /\ CmdOf(k) = CAPA
    /\ h[k].pre.currentState = STATE_AUTHORIZATION /\ h[k].pre.user = NoUser

\* the LIST n or UIDL n of the last step asked the backend for a message
\* that it reported as not existing
NoSuchMessage(k) ==
  /\ LineStep(k) /\ CmdOf(k) \in {LIST, UIDL}
  /\ h[k].pre.currentState = STATE_TRANSACTION
  /\ Len(ArgsOf(k)) >= 1 /\ Atoi(ArgsOf(k)[1]).ok
  /\ Len(h[k].calls) = 1 /\ h[k].calls[1].ok
  /\ IF CmdOf(k) = LIST
     THEN ~BackendListMessage(backend, h[k].pre.user, Atoi(ArgsOf(k)[1]).val, TRUE).exists
     ELSE ~BackendUidlMessage(backend, h[k].pre.user, Atoi(ArgsOf(k)[1]).val, TRUE).exists

(***************************************************************************)
(* C26.  LIST n or UIDL n in TRANSACTION for a message the backend reports *)
(* as not existing is answered with the single line "-ERR no such message" *)
(* (no generic error line); the state stays TRANSACTION, Unlock is not     *)
(* called and the lock stays held, the session stays open and alive.       *)
(***************************************************************************)
C26_NoSuchMessageIsSoft ==
  \A k \in Conns :
    NoSuchMessage(k)
      => /\ h[k].out = <<Err("no such message", <<>>, <<>>)>>
         /\ ~h[k].err
         /\ client[k].currentState = STATE_TRANSACTION
         /\ Calls(k, "Unlock") = {}
         /\ client[k].user = h[k].pre.user /\ client[k].user \in backend.locked
         /\ client[k].conn = "open" /\ client[k].isAlive

\* LIST 9 against the five messages of the backend
C26_Witness ==
  \E k \in Conns : NoSuchMessage(k) /\ CmdOf(k) = LIST /\ ArgsOf(k) = << <<"9">> >>

(***************************************************************************)
(* C27.  In AUTHORIZATION with authentication allowed, USER name is        *)
(* answered with the same single +OK line whatever the name is, and makes  *)
(* no Authorizator or backend call.                                        *)
(***************************************************************************)
C27_UserReplyIgnoresName ==
  \A k \in Conns :
    (/\ LineStep(k) /\ CmdOf(k) = USER /\ Len(ArgsOf(k)) = 1
     /\ h[k].pre.currentState = STATE_AUTHORIZATION /\ AllowAuth(client[k]))
      => /\ h[k].out = <<Ok("", <<>>, <<>>)>>
         /\ h[k].calls = <<>>
         /\ ~h[k].err

\* USER with a name that has no mailbox
C27_Witness ==
  \E k \in Conns :
    /\ LineStep(k) /\ CmdOf(k) = USER /\ Len(ArgsOf(k)) = 1
    /\ ArgsOf(k)[1] \notin Users
    /\ h[k].pre.currentState = STATE_AUTHORIZATION /\ AllowAuth(client[k])

(***************************************************************************)
(* C28 (stated as claimed; the code violates it).  After a QUIT read in    *)
(* TRANSACTION the state is UPDATE, whether or not Update and Unlock       *)
(* succeeded.                                                              *)
(***************************************************************************)
C28_QuitInTransactionGivesUpdate ==
  \A k \in Conns :
    (LineStep(k) /\ CmdOf(k) = QUIT /\ h[k].pre.currentState = STATE_TRANSACTION)
      => client[k].currentState = STATE_UPDATE

(***************************************************************************)
(* C29 (stated as claimed; the code violates it).  A session calls Unlock  *)
(* only for an identity its own Lock succeeded for and that it has not     *)
(* unlocked yet; a session whose Lock never succeeded calls Unlock zero    *)
(* times when its read fails.                                              *)
(***************************************************************************)
C29_UnlockOnlyWhatWasLocked ==
  \A k \in Conns :
    /\ h[k].nUnlock <= h[k].nLock
    /\ (h[k].kind = "readfail" /\ h[k].nLock = 0) => h[k].calls = <<>>

(***************************************************************************)
(* C30.  While a session is open in TRANSACTION, c.user is set, the        *)
(* session's Lock succeeded once and it has not called Unlock; and every   *)
(* backend call of a step taken in TRANSACTION, the Unlock of QUIT and of  *)
(* a read failure included, is keyed by c.user as it was before the step.  *)
(***************************************************************************)
C30_TransactionMeansLockedIdentity ==
  \A k \in Conns :
    /\ InTransaction(k)
         => /\ client[k].user # NoUser
            /\ h[k].nLock = 1 /\ h[k].nUnlock = 0
            /\ client[k].user \in backend.locked
    /\ (h[k].kind \in {"line", "readfail"} /\ h[k].pre.currentState = STATE_TRANSACTION)
         => /\ h[k].pre.user # NoUser
            /\ \A i \in 1..Len(h[k].calls) : h[k].calls[i].user = h[k].pre.user

\* a QUIT in TRANSACTION has committed and unlocked for the identity
C30_Witness ==
  \E k \in Conns :
    /\ LineStep(k) /\ CmdOf(k) = QUIT
    /\ h[k].pre.currentState = STATE_TRANSACTION
    /\ OpsOf(k) = <<"Update", "Unlock">>
    /\ \A i \in 1..2 : h[k].calls[i].user = h[k].pre.user

\* the last step was an RSET answered +OK in TRANSACTION
RsetDone(k) ==
  /\ LineStep(k) /\ CmdOf(k) = RSET /\ ~h[k].err
  /\ h[k].pre.currentState = STATE_TRANSACTION
  /\ h[k].out = <<Ok("", <<>>, <<>>)>>

(***************************************************************************)
(* C25.  With a backend that keeps the deletion marks as its contract      *)
(* says: after an RSET answered +OK, whatever DELE commands came before    *)
(* it (and also when it follows another RSET), the replies STAT and LIST   *)
(* give are the ones they gave when the session entered TRANSACTION,       *)
(* before its first DELE; and a STAT or LIST read while nothing is marked  *)
(* is answered with exactly those replies.                                 *)
(***************************************************************************)
C25_RsetRestoresView ==
  \A k \in Conns :
    /\ RsetDone(k) => View(client[k], backend) = h[k].base
    /\ (/\ LineStep(k) /\ ~h[k].err /\ backend.deleted = {}
        /\ h[k].pre.currentState = STATE_TRANSACTION)
         => /\ CmdOf(k) = STAT => h[k].out = h[k].base.stat
            /\ (CmdOf(k) = LIST /\ ArgsOf(k) = <<>>) => h[k].out = h[k].base.list

\* an RSET answered +OK in a session that had marked a message
C25_Witness ==
  \E k \in Conns : RsetDone(k) /\ h[k].marked /\ backend.keeps

(***************************************************************************)
(* C31.  backend.Update is called only by a QUIT read in TRANSACTION, and  *)
(* at most once in a session; a session that ended by a read failure       *)
(* (timeout included) has not called it, so what it marked with DELE is    *)
(* not committed.                                                          *)
(***************************************************************************)
C31_CommitOnlyByQuitInTransaction ==
  \A k \in Conns :
    /\ Calls(k, "Update") # {}
         => (/\ LineStep(k) /\ CmdOf(k) = QUIT
             /\ h[k].pre.currentState = STATE_TRANSACTION)
    /\ h[k].nUpdate <= 1
    /\ h[k].kind = "readfail" => (h[k].nUpdate = 0 /\ Calls(k, "Update") = {})

\* a QUIT in TRANSACTION returned no error: Update was called, once
C31_Witness ==
  \E k \in Conns :
    /\ LineStep(k) /\ CmdOf(k) = QUIT /\ ~h[k].err
    /\ h[k].pre.currentState = STATE_TRANSACTION
    /\ h[k].nUpdate = 1 /\ Calls(k, "Update") # {}

(***************************************************************************)
(* C32.  A QUIT read in AUTHORIZATION makes no backend call, is answered   *)
(* with the single line "+OK Goodbye", leaves the state AUTHORIZATION and  *)
(* ends the session: isAlive is false and the connection is closed.        *)
(***************************************************************************)
C32_QuitInAuthorization ==
  \A k \in Conns :
    (LineStep(k) /\ CmdOf(k) = QUIT /\ h[k].pre.currentState = STATE_AUTHORIZATION)
      => /\ h[k].calls = <<>>
         /\ h[k].out = <<Ok("Goodbye", <<>>, <<>>)>>
         /\ ~h[k].err
         /\ client[k].currentState = STATE_AUTHORIZATION
         /\ ~client[k].isAlive /\ client[k].conn = "closed"

\* QUIT as the first line of a session
C32_Witness ==
  \E k \in Conns :
    /\ LineStep(k) /\ CmdOf(k) = QUIT
    /\ h[k].pre.currentState = STATE_AUTHORIZATION /\ h[k].pre.user = NoUser
    /\ client[k].conn = "closed"

\* the arguments of the line are missing, surplus or not numbers
BadArgs(cmd, args) ==
  \/ cmd \in {RETR, DELE} /\ Len(args) = 0
  \/ cmd = TOP /\ Len(args) # 2
  \/ cmd \in {LIST, UIDL, RETR, DELE} /\ Len(args) >= 1 /\ ~Atoi(args[1]).ok
  \/ cmd = TOP /\ Len(args) = 2 /\ (~Atoi(args[1]).ok \/ ~Atoi(args[2]).ok)

ArgError(k) ==
  /\ LineStep(k) /\ h[k].pre.currentState = STATE_TRANSACTION
  /\ BadArgs(CmdOf(k), ArgsOf(k))

(***************************************************************************)
(* C33.  In TRANSACTION, RETR and DELE without argument, TOP with other    *)
(* than two arguments, and LIST, UIDL, RETR, DELE or TOP with an argument  *)
(* that is not a number return a handler error and call no backend         *)
(* operation; the state stays TRANSACTION and no message is marked as      *)
(* deleted.                                                                *)
(***************************************************************************)
C33_ArgumentErrorsCallNothing ==
  \A k \in Conns :
    ArgError(k)
      => /\ h[k].err
         /\ h[k].calls = <<>>
         /\ client[k].currentState = STATE_TRANSACTION
         /\ backend.deleted = {}

\* DELE without argument on a maildrop that holds messages
C33_Witness ==
  \E k \in Conns :
    ArgError(k) /\ CmdOf(k) = DELE /\ ArgsOf(k) = <<>> /\ backend.msgs # {}

====
